---- MODULE Spec2Model ----
(***************************************************************************)
(* Model of pkg/kubelet/images/state.go: the kubelet image manager's       *)
(* persistent cache of ensured image pull credentials (imageManagerCache). *)
(*                                                                         *)
(* The cache is used by several goroutines.  Every method is cut into      *)
(* steps at its lock acquisitions and its calls; a goroutine's position is *)
(* a stack of labels (the innermost call first).  sync.RWMutex is not      *)
(* reentrant: Lock() waits until the mutex is free, whoever holds it.      *)
(***************************************************************************)
EXTENDS Integers, Sequences, FiniteSets, TLC

\* ---------------------------------------------------------------- bounds
NumThreads == 2
NumHashes == 2
MaxTime == 2
MaxPeriod == 1
\* the number of calls the goroutines make, all together
MaxCalls == 2

Threads == 1..NumThreads
Hashes == 1..NumHashes
Dates == 0..MaxTime
Periods == 0..MaxPeriod
\* "" is the empty image reference
RefSeq == <<"", "img-a", "img-b">>
Refs == {RefSeq[i] : i \in 1..Len(RefSeq)}

\* ---------------------------------------------------------------- data
\* EnsuredInfo values; a *EnsuredInfo is <<>> (nil) or <<e>>
EnsuredInfo == [ensured : {TRUE}, lastEnsuredDate : Dates]
EnsuredPtrs == {<<>>} \cup {<<e>> : e \in EnsuredInfo}
\* a map[string]*EnsuredInfo
AuthMaps == UNION {[hs -> EnsuredPtrs] : hs \in SUBSET Hashes}
EmptyAuths == [h \in {} |-> <<>>]
\* the *EnsuredInfo values callers pass in: nil, an old and a recent date
InputPtrs == {<<>>} \cup {<<[ensured |-> TRUE, lastEnsuredDate |-> d]>> : d \in {0, MaxTime}}
\* the zero value of a sync.RWMutex (no holder), and the nil *ImagePullInfo
Unlocked == 0
NilRec == 0

\* a freshly made &ImagePullInfo{Auths: auths}
ImagePullInfo(auths) == [Auths |-> auths, mux |-> Unlocked]

\* JSON documents: the object's "auths" member maps a hash to null (<<>>) or to
\* the object <<ensured, lastEnsuredDate>>.  The mutex is unexported and is
\* not encoded.
MarshalEntry(p) == IF p = <<>> THEN <<>> ELSE <<p[1].ensured, p[1].lastEnsuredDate>>
UnmarshalEntry(j) ==
    IF j = <<>> THEN <<>> ELSE <<[ensured |-> j[1], lastEnsuredDate |-> j[2]]>>
Marshal(rec) == <<"json", [h \in DOMAIN rec.Auths |-> MarshalEntry(rec.Auths[h])]>>
Unmarshal(doc) == ImagePullInfo([h \in DOMAIN doc[2] |-> UnmarshalEntry(doc[2][h])])

\* what a path of the cache directory holds
Absent == <<"absent">>
Dir == <<"dir">>
Malformed == <<"malformed">>
JsonDocs == {<<"json", [h \in DOMAIN a |-> MarshalEntry(a[h])]>> : a \in AuthMaps}
\* the files an earlier run of the kubelet left behind: their entries were
\* ensured before this process started (at time 0)
OldAuthMaps == UNION {[1..n -> {<<[ensured |-> TRUE, lastEnsuredDate |-> 0]>>}] : n \in 0..NumHashes}
OldDocs == {<<"json", [h \in DOMAIN a |-> MarshalEntry(a[h])]>> : a \in OldAuthMaps}

\* error values
ErrNil == "nil"
ErrNotExist == "ENOENT"
ErrIO == "EIO"
ErrDecode == "EDECODE"

VARIABLES
    disk,     \* path (image reference; "" is the cache directory) -> content
    cache,    \* c.cache: image reference -> address of its ImagePullInfo
    heap,     \* address -> ImagePullInfo (Auths and the holder of mux)
    lock,     \* holder of c.lock, or Unlocked
    now,      \* the last value time.Now() returned
    calls,    \* the number of calls made so far
    phase,    \* "new" before newImageManagerCache, then "running" or "nil"
    crashed,  \* the process died of an unrecovered panic
    th        \* per goroutine: stack of labels, arguments, locals, result

vars == <<disk, cache, heap, lock, now, calls, phase, crashed, th>>

Idle == [stack |-> <<"done">>, op |-> "none", ref |-> "", hash |-> 1, data |-> <<>>,
         recheck |-> FALSE, period |-> 0, ptr |-> NilRec, err |-> ErrNil,
         out |-> <<>>, v |-> NilRec, seenK |-> {}, seenH |-> {},
         result |-> [err |-> ErrNil, rec |-> <<>>, auth |-> <<>>]]

\* ---------------------------------------------------------------- helpers
Top(t) == th[t].stack[1]
Range(f) == {f[x] : x \in DOMAIN f}
Put(f, k, x) == [y \in DOMAIN f \cup {k} |-> IF y = k THEN x ELSE f[y]]
Drop(f, k) == [y \in DOMAIN f \ {k} |-> f[y]]

\* Addresses of ImagePullInfo records.  An address has no meaning but identity,
\* so a record is named after what refers to it: the record of the i-th image
\* reference has address i, a record that only goroutines still hold has the
\* address Len(RefSeq) + t of the first such goroutine t, and a record that
\* nothing refers to is gone (Go's garbage collector).
Min(S) == CHOOSE x \in S : \A y \in S : x <= y
Idx(r) == CHOOSE i \in 1..Len(RefSeq) : RefSeq[i] = r
Holders(a, thr) == {t \in Threads : thr[t].ptr = a \/ thr[t].v = a}
Live(c, thr) == (Range(c) \cup {thr[t].ptr : t \in Threads} \cup {thr[t].v : t \in Threads})
                    \ {NilRec}
Canon(a, c, thr) ==
    IF a = NilRec THEN NilRec
    ELSE IF \E r \in DOMAIN c : c[r] = a THEN Idx(CHOOSE r \in DOMAIN c : c[r] = a)
    ELSE Len(RefSeq) + Min(Holders(a, thr))
\* the address of a record just allocated, until it is named as above
NewAddr == Len(RefSeq) + NumThreads + 1

\* os.Stat(path)
StatOutcomes(d, r) == {IF d[r] = Absent THEN ErrNotExist ELSE ErrNil, ErrIO}
\* os.ReadFile(path)
ReadOutcomes(d, r) ==
    {IF d[r] = Absent THEN ErrNotExist ELSE IF d[r] = Dir THEN ErrIO ELSE ErrNil, ErrIO}
\* os.Remove(path): a directory is removed only when it is empty
RemoveOutcomes(d, r) ==
    {IF d[r] = Absent THEN ErrNotExist
     ELSE IF d[r] = Dir /\ \E q \in Refs \ {r} : d[q] # Absent THEN ErrIO
     ELSE ErrNil, ErrIO}
\* os.WriteFile(path): needs the directory, and cannot replace it
WriteOutcomes(d, r) ==
    {IF d[""] = Absent \/ d[r] = Dir THEN ErrIO ELSE ErrNil, ErrIO}

\* ---------------------------------------------------------------- initial state
\* the image reference that may have a file when the process starts
FileRef == RefSeq[2]
DiskOk(d) ==
    /\ d[""] \in {Absent, Dir}
    /\ d[FileRef] \in {Absent, Malformed} \cup OldDocs
    /\ \A r \in Refs \ {"", FileRef} : d[r] = Absent
    /\ d[""] = Absent => \A r \in Refs : d[r] = Absent

InitWorld ==
    /\ disk \in {d \in [Refs -> {Absent, Dir, Malformed} \cup OldDocs] : DiskOk(d)}
    /\ cache = [r \in {} |-> NilRec]
    /\ heap = [a \in {} |-> ImagePullInfo(EmptyAuths)]
    /\ lock = Unlocked
    /\ now = 0
    /\ phase = "new"
    /\ crashed = FALSE
    /\ th = [t \in Threads |->
                IF t = 1 THEN [Idle EXCEPT !.op = "newImageManagerCache",
                                           !.stack = <<"ctor_loop", "done">>]
                ELSE Idle]

Init == InitWorld /\ calls = 0

\* ---------------------------------------------------------------- calls and returns
\* the method's first label, then the labels of its callees' continuations
Entry(op) ==
    CASE op = "getImagePullInfo" -> <<"get_lock">>
      [] op = "getAuthInfo" -> <<"get_lock", "ga_check">>
      [] op = "setImagePullInfo" -> <<"set_lock">>
      [] op = "deleteImagePullInfo" -> <<"del_lock">>
      [] op = "setAuthInfo" -> <<"sa_lock">>
      [] op = "deleteAuthInfo" -> <<"da_lock">>
      [] op = "storeImageManagerCache" -> <<"store_lock">>
      [] op = "loadImageManagerCache" -> <<"load_stat">>
      [] op = "refreshImageManagerCache" -> <<"rf_start">>

\* what the caller of a finished top-level call sees
Finalize(r, h) ==
    [r EXCEPT !.result =
                [err |-> IF r.op \in {"setImagePullInfo", "deleteImagePullInfo",
                                      "storeImageManagerCache", "loadImageManagerCache",
                                      "refreshImageManagerCache"} THEN r.err ELSE ErrNil,
                 rec |-> IF r.op = "getImagePullInfo" /\ r.ptr # NilRec
                         THEN <<h[r.ptr].Auths>> ELSE <<>>,
                 auth |-> IF r.op = "getAuthInfo" THEN r.out ELSE <<>>],
              !.ptr = NilRec, !.err = ErrNil, !.out = <<>>, !.v = NilRec,
              !.seenK = {}, !.seenH = {}]

\* r returns from its innermost call
Return(r, h) ==
    LET p == [r EXCEPT !.stack = Tail(@)]
    IN  IF p.stack = <<"done">> THEN Finalize(p, h) ELSE p
\* r moves to label l within the same method
Goto(r, l) == [r EXCEPT !.stack = <<l>> \o Tail(@)]
\* r calls a method whose first label is l and continues at k when it returns
CallFrom(r, l, k) == [r EXCEPT !.stack = <<l, k>> \o Tail(@)]

Running(t) == phase = "running" /\ ~crashed

\* the new state of goroutine t, of the map and of the records
Commit(t, r, c, h) ==
    LET nth == [th EXCEPT ![t] = r]
        live == Live(c, nth)
    IN  /\ th' = [u \in Threads |-> [nth[u] EXCEPT !.ptr = Canon(@, c, nth),
                                                   !.v = Canon(@, c, nth)]]
        /\ cache' = [x \in DOMAIN c |-> Idx(x)]
        /\ heap' = [b \in {Canon(a, c, nth) : a \in live} |->
                        h[CHOOSE a \in live : Canon(a, c, nth) = b]]

\* c.lock.Lock(): waits while any goroutine holds the mutex, the caller included
Lock(t, l) ==
    /\ lock = Unlocked
    /\ lock' = t
    /\ Commit(t, Goto(th[t], l), cache, heap)
    /\ UNCHANGED <<disk, now, calls, phase, crashed>>

\* c.lock.Unlock() (deferred) as goroutine t returns
Unlock(t) == lock' = Unlocked

\* ---------------------------------------------------------------- loadImageManagerCache
\* lines 203-215: os.Stat, then the empty-reference test
LoadStat(t) ==
    \E o \in StatOutcomes(disk, th[t].ref) :
        /\ Commit(t, IF o = ErrNotExist THEN Return([th[t] EXCEPT !.err = ErrNil], heap)
                     ELSE IF o # ErrNil THEN Return([th[t] EXCEPT !.err = o], heap)
                     ELSE IF th[t].ref = "" THEN Return([th[t] EXCEPT !.err = ErrNil], heap)
                     ELSE Goto(th[t], "load_lock"),
                  cache, heap)
        /\ UNCHANGED <<disk, lock, now, calls, phase, crashed>>

\* lines 219-229: os.ReadFile, Unmarshal, c.cache[imageRef] = info, deferred Unlock
LoadRead(t) ==
    \E o \in ReadOutcomes(disk, th[t].ref) :
        LET r == th[t].ref
            e == IF o # ErrNil THEN o ELSE IF disk[r] = Malformed THEN ErrDecode ELSE ErrNil
            a == NewAddr
        IN  /\ IF e # ErrNil
               THEN Commit(t, Return([th[t] EXCEPT !.err = e], heap), cache, heap)
               ELSE Commit(t, Return([th[t] EXCEPT !.err = ErrNil], heap),
                           Put(cache, r, a), Put(heap, a, Unmarshal(disk[r])))
            /\ Unlock(t)
            /\ UNCHANGED <<disk, now, calls, phase, crashed>>

LoadImageManagerCache(t) ==
    /\ ~crashed
    /\ Top(t) \in {"load_stat", "load_lock", "load_read"}
    /\ CASE Top(t) = "load_stat" -> LoadStat(t)
         [] Top(t) = "load_lock" -> Lock(t, "load_read")
         [] Top(t) = "load_read" -> LoadRead(t)

\* ---------------------------------------------------------------- newImageManagerCache
\* lines 85-99, run by goroutine 1 before the cache is handed out.  imageRefs
\* is an input: the loop takes any reference not yet taken, or ends.
NewLoop(t) ==
    /\ \/ /\ \E r \in Refs \ th[t].seenK :
                Commit(t, CallFrom([th[t] EXCEPT !.ref = r, !.seenK = @ \cup {r}],
                                   "load_stat", "ctor_check"), cache, heap)
          /\ phase' = phase
       \/ /\ Commit(t, Return(th[t], heap), cache, heap)
          /\ phase' = "running"
    /\ UNCHANGED <<disk, lock, now, calls, crashed>>

\* faulty variant: the error of a load is logged and the loop goes on
NewCheckKeepsGoing(t) ==
    /\ phase' = phase
    /\ Commit(t, Goto([th[t] EXCEPT !.err = ErrNil], "ctor_loop"), cache, heap)
    /\ UNCHANGED <<disk, lock, now, calls, crashed>>

\* lines 93-96: an error of the load ends the construction with nil
NewCheck(t) ==
    /\ IF th[t].err # ErrNil
       THEN /\ phase' = "nil"
            /\ Commit(t, Return(th[t], heap), [r \in {} |-> NilRec], heap)
       ELSE /\ phase' = phase
            /\ Commit(t, Goto(th[t], "ctor_loop"), cache, heap)
    /\ UNCHANGED <<disk, lock, now, calls, crashed>>

NewImageManagerCache(t) ==
    /\ phase = "new"
    /\ Top(t) \in {"ctor_loop", "ctor_check"}
    /\ CASE Top(t) = "ctor_loop" -> NewLoop(t)
         [] Top(t) = "ctor_check" -> NewCheck(t)

\* ---------------------------------------------------------------- getImagePullInfo
\* lines 102-105: Lock, then the call of loadImageManagerCache
GetLock(t) ==
    /\ lock = Unlocked
    /\ lock' = t
    /\ Commit(t, CallFrom(th[t], "load_stat", "get_ret"), cache, heap)
    /\ UNCHANGED <<disk, now, calls, phase, crashed>>

\* lines 105-111: the error of the load is dropped; the record or nil is returned
GetRet(t) ==
    LET r == th[t].ref
        p == IF r \in DOMAIN cache THEN cache[r] ELSE NilRec
    IN  /\ Commit(t, Return([th[t] EXCEPT !.ptr = p, !.err = ErrNil], heap), cache, heap)
        /\ Unlock(t)
        /\ UNCHANGED <<disk, now, calls, phase, crashed>>

GetImagePullInfo(t) ==
    /\ Running(t)
    /\ Top(t) \in {"get_lock", "get_ret"}
    /\ CASE Top(t) = "get_lock" -> GetLock(t)
         [] Top(t) = "get_ret" -> GetRet(t)

\* ---------------------------------------------------------------- getAuthInfo
\* lines 117-120: without a record, return nil; else Lock
GetAuthLock(t) ==
    IF th[t].ptr = NilRec
    THEN /\ Commit(t, Return([th[t] EXCEPT !.out = <<>>], heap), cache, heap)
         /\ UNCHANGED <<disk, lock, now, calls, phase, crashed>>
    ELSE Lock(t, "ga_mux")

\* line 122, c.cache[imageRef].mux.Lock(): a missing key yields a nil pointer,
\* whose dereference panics (the deferred Unlock runs, then the process dies)
GetAuthMux(t) ==
    LET r == th[t].ref
    IN  IF r \notin DOMAIN cache
        THEN /\ crashed' = TRUE
             /\ Unlock(t)
             /\ UNCHANGED <<disk, cache, heap, now, calls, phase, th>>
        ELSE /\ heap[cache[r]].mux = Unlocked
             /\ Commit(t, Goto(th[t], "ga_read"), cache,
                       [heap EXCEPT ![cache[r]].mux = t])
             /\ UNCHANGED <<disk, lock, now, calls, phase, crashed>>

\* lines 123-127 and the deferred Unlocks.  The test reads the record found
\* earlier (pullInfo), the result is read from the record now in the map.
GetAuthRead(t) ==
    LET r == th[t].ref
        cur == heap[cache[r]].Auths
        res == IF th[t].hash \in DOMAIN heap[th[t].ptr].Auths
               THEN (IF th[t].hash \in DOMAIN cur THEN cur[th[t].hash] ELSE <<>>)
               ELSE <<>>
    IN  /\ Commit(t, Return([th[t] EXCEPT !.out = res], heap), cache,
                  [heap EXCEPT ![cache[r]].mux = Unlocked])
        /\ Unlock(t)
        /\ UNCHANGED <<disk, now, calls, phase, crashed>>

GetAuthInfo(t) ==
    /\ Running(t)
    /\ Top(t) \in {"ga_check", "ga_mux", "ga_read"}
    /\ CASE Top(t) = "ga_check" -> GetAuthLock(t)
         [] Top(t) = "ga_mux" -> GetAuthMux(t)
         [] Top(t) = "ga_read" -> GetAuthRead(t)

\* ---------------------------------------------------------------- setAuthInfo
\* lines 163-164 (157-161 build the one-entry map before the lock is taken)
SetAuthAssign(t) ==
    LET a == NewAddr
        auth == [h \in {th[t].hash} |-> th[t].data]
    IN  /\ Commit(t, Return(th[t], heap), Put(cache, th[t].ref, a),
                  Put(heap, a, ImagePullInfo(auth)))
        /\ Unlock(t)
        /\ UNCHANGED <<disk, now, calls, phase, crashed>>

SetAuthInfo(t) ==
    /\ Running(t)
    /\ Top(t) \in {"sa_lock", "sa_assign"}
    /\ CASE Top(t) = "sa_lock" -> Lock(t, "sa_assign")
         [] Top(t) = "sa_assign" -> SetAuthAssign(t)

\* ---------------------------------------------------------------- deleteAuthInfo
\* faulty variant: the record's mutex is not taken
DeleteAuthCheckNoMux(t) ==
    LET r == th[t].ref
    IN  IF r \notin DOMAIN cache
        THEN /\ Commit(t, Return(th[t], heap), cache, heap)
             /\ Unlock(t)
             /\ UNCHANGED <<disk, now, calls, phase, crashed>>
        ELSE /\ Commit(t, Goto(th[t], "da_delete"), cache, heap)
             /\ UNCHANGED <<disk, lock, now, calls, phase, crashed>>

\* lines 170-172: without a record for imageRef, return (deferred Unlock);
\* else c.cache[imageRef].mux.Lock()
DeleteAuthCheck(t) ==
    LET r == th[t].ref
    IN  IF r \notin DOMAIN cache
        THEN /\ Commit(t, Return(th[t], heap), cache, heap)
             /\ Unlock(t)
             /\ UNCHANGED <<disk, now, calls, phase, crashed>>
        ELSE /\ heap[cache[r]].mux = Unlocked
             /\ Commit(t, Goto(th[t], "da_delete"), cache,
                       [heap EXCEPT ![cache[r]].mux = t])
             /\ UNCHANGED <<disk, lock, now, calls, phase, crashed>>

\* faulty variant: a record whose last entry is deleted leaves the map
DeleteAuthDropsEmpty(t) ==
    LET r == th[t].ref
        left == Drop(heap[cache[r]].Auths, th[t].hash)
    IN  /\ Commit(t, Return(th[t], heap),
                  IF left = EmptyAuths THEN Drop(cache, r) ELSE cache,
                  [heap EXCEPT ![cache[r]].Auths = left, ![cache[r]].mux = Unlocked])
        /\ Unlock(t)
        /\ UNCHANGED <<disk, now, calls, phase, crashed>>

\* lines 174-176 and the deferred Unlocks: the entry is deleted from the
\* record in the map, under the record's mutex
DeleteAuthDelete(t) ==
    LET r == th[t].ref
    IN  /\ Commit(t, Return(th[t], heap), cache,
                  [heap EXCEPT ![cache[r]].Auths = Drop(@, th[t].hash),
                               ![cache[r]].mux = Unlocked])
        /\ Unlock(t)
        /\ UNCHANGED <<disk, now, calls, phase, crashed>>

DeleteAuthInfo(t) ==
    /\ Running(t)
    /\ Top(t) \in {"da_lock", "da_check", "da_delete"}
    /\ CASE Top(t) = "da_lock" -> Lock(t, "da_check")
         [] Top(t) = "da_check" -> DeleteAuthCheck(t)
         [] Top(t) = "da_delete" -> DeleteAuthDelete(t)

\* ---------------------------------------------------------------- deleteImagePullInfo
\* faulty variant: only the file is removed, the record stays in the map
DeleteRemoveFileOnly(t) ==
    \E o \in RemoveOutcomes(disk, th[t].ref) :
        /\ Commit(t, Return([th[t] EXCEPT !.err = o], heap), cache, heap)
        /\ disk' = IF o = ErrNil THEN [disk EXCEPT ![th[t].ref] = Absent] ELSE disk
        /\ Unlock(t)
        /\ UNCHANGED <<now, calls, phase, crashed>>

\* lines 145-153: delete(c.cache, imageRef), os.Remove, deferred Unlock; every
\* error of os.Remove is returned
DeleteRemove(t) ==
    \E o \in RemoveOutcomes(disk, th[t].ref) :
        /\ Commit(t, Return([th[t] EXCEPT !.err = o], heap), Drop(cache, th[t].ref), heap)
        /\ disk' = IF o = ErrNil THEN [disk EXCEPT ![th[t].ref] = Absent] ELSE disk
        /\ Unlock(t)
        /\ UNCHANGED <<now, calls, phase, crashed>>

DeleteImagePullInfo(t) ==
    /\ Running(t)
    /\ Top(t) \in {"del_lock", "del_remove"}
    /\ CASE Top(t) = "del_lock" -> Lock(t, "del_remove")
         [] Top(t) = "del_remove" -> DeleteRemove(t)

\* ---------------------------------------------------------------- storeImageManagerCache
\* lines 182-185: Lock, then the call of getImagePullInfo
StoreLock(t) ==
    /\ lock = Unlocked
    /\ lock' = t
    /\ Commit(t, CallFrom(th[t], "get_lock", "store_write"), cache, heap)
    /\ UNCHANGED <<disk, now, calls, phase, crashed>>

\* lines 186-199: Marshal and os.WriteFile, deferred Unlock
StoreWrite(t) ==
    LET r == th[t].ref
    IN  IF th[t].ptr = NilRec \/ r = ""
        THEN /\ Commit(t, Return([th[t] EXCEPT !.err = ErrNil, !.ptr = NilRec], heap),
                       cache, heap)
             /\ Unlock(t)
             /\ UNCHANGED <<disk, now, calls, phase, crashed>>
        ELSE \E o \in WriteOutcomes(disk, r) :
                /\ Commit(t, Return([th[t] EXCEPT !.err = o, !.ptr = NilRec], heap),
                          cache, heap)
                /\ disk' = IF o = ErrNil THEN [disk EXCEPT ![r] = Marshal(heap[th[t].ptr])]
                           ELSE disk
                /\ Unlock(t)
                /\ UNCHANGED <<now, calls, phase, crashed>>

StoreImageManagerCache(t) ==
    /\ Running(t)
    /\ Top(t) \in {"store_lock", "store_write"}
    /\ CASE Top(t) = "store_lock" -> StoreLock(t)
         [] Top(t) = "store_write" -> StoreWrite(t)

\* ---------------------------------------------------------------- setImagePullInfo
\* lines 133-139: the record is replaced, then storeImageManagerCache is called
SetAssign(t) ==
    LET a == NewAddr
        authInfo == [h \in {th[t].hash} |-> th[t].data]
    IN  /\ Commit(t, CallFrom(th[t], "store_lock", "set_ret"), Put(cache, th[t].ref, a),
                  Put(heap, a, ImagePullInfo(authInfo)))
        /\ UNCHANGED <<disk, lock, now, calls, phase, crashed>>

\* line 139 and the deferred Unlock: the error of the store is returned
SetRet(t) ==
    /\ Commit(t, Return(th[t], heap), cache, heap)
    /\ Unlock(t)
    /\ UNCHANGED <<disk, now, calls, phase, crashed>>

SetImagePullInfo(t) ==
    /\ Running(t)
    /\ Top(t) \in {"set_lock", "set_assign", "set_ret"}
    /\ CASE Top(t) = "set_lock" -> Lock(t, "set_assign")
         [] Top(t) = "set_assign" -> SetAssign(t)
         [] Top(t) = "set_ret" -> SetRet(t)

\* ---------------------------------------------------------------- refreshImageManagerCache
\* faulty variant: the zero period is not recognised as "never invalidate"
RefreshSkippedNever(recheck, period) == recheck /\ period < 0
\* line 236: the only case in which the sweep is skipped
RefreshSkipped(recheck, period) == recheck /\ period = 0

\* line 243: auth.LastEnsuredDate.Add(recheckPeriod.Duration).Before(time.Now()).
\* The clock is read nowhere else, so it advances when it is read.
Stale(p, period, time) == p # <<>> /\ p[1].lastEnsuredDate + period < time

\* The sweep ranges over c.cache and over v.Auths without c.lock or v.mux.
\* When another goroutine is writing the same map, Go's runtime either lets
\* the iteration go on or ends the process ("fatal error: concurrent map
\* iteration and map write").
CacheWriters(t) ==
    {u \in Threads \ {t} : Top(u) \in {"set_assign", "sa_assign", "del_remove", "load_read"}}
AuthsWriters(t) ==
    {u \in Threads \ {t} : /\ Top(u) = "da_delete"
                            /\ th[u].ref \in DOMAIN cache
                            /\ cache[th[u].ref] = th[t].v}
RefreshFatal(t, writers) ==
    /\ writers # {}
    /\ crashed' = TRUE
    /\ UNCHANGED <<disk, cache, heap, lock, now, calls, phase, th>>

\* lines 233-240: the lock taken here is a local variable and excludes nobody
RefreshStart(t) ==
    /\ Commit(t, IF RefreshSkipped(th[t].recheck, th[t].period)
                 THEN Return([th[t] EXCEPT !.err = ErrNil], heap)
                 ELSE Goto(th[t], "rf_key"), cache, heap)
    /\ UNCHANGED <<disk, lock, now, calls, phase, crashed>>

\* line 241: the next key of c.cache (read without c.lock), or the end of the sweep
RefreshKey(t) ==
    \/ RefreshFatal(t, CacheWriters(t))
    \/ /\ IF DOMAIN cache \ th[t].seenK = {}
          THEN Commit(t, Return([th[t] EXCEPT !.err = ErrNil], heap), cache, heap)
          ELSE \E k \in DOMAIN cache \ th[t].seenK :
                   Commit(t, Goto([th[t] EXCEPT !.ref = k, !.v = cache[k],
                                                !.seenK = @ \cup {k}, !.seenH = {}],
                                  "rf_auth"), cache, heap)
       /\ UNCHANGED <<disk, lock, now, calls, phase, crashed>>

\* lines 242-251: the next entry of v.Auths (read without any lock); a stale
\* entry is deleted first; setImagePullInfo is called for every entry
RefreshAuth(t) ==
    \/ RefreshFatal(t, AuthsWriters(t))
    \/ /\ IF DOMAIN heap[th[t].v].Auths \ th[t].seenH = {}
          THEN Commit(t, Goto(th[t], "rf_key"), cache, heap) /\ now' = now
          ELSE \E i \in DOMAIN heap[th[t].v].Auths \ th[t].seenH, n \in now..MaxTime :
                   LET auth == heap[th[t].v].Auths[i]
                       r == [th[t] EXCEPT !.hash = i, !.data = auth, !.seenH = @ \cup {i}]
                   IN  /\ now' = n
                       /\ Commit(t, IF Stale(auth, th[t].period, n)
                                    THEN CallFrom(r, "da_lock", "rf_set")
                                    ELSE CallFrom(r, "set_lock", "rf_after"), cache, heap)
       /\ UNCHANGED <<disk, lock, calls, phase, crashed>>

\* line 251, after deleteAuthInfo returned
RefreshSet(t) ==
    /\ Commit(t, CallFrom(th[t], "set_lock", "rf_after"), cache, heap)
    /\ UNCHANGED <<disk, lock, now, calls, phase, crashed>>

\* lines 251-254: the error of setImagePullInfo ends the sweep
RefreshAfter(t) ==
    /\ Commit(t, IF th[t].err # ErrNil THEN Return(th[t], heap)
                 ELSE Goto(th[t], "rf_auth"), cache, heap)
    /\ UNCHANGED <<disk, lock, now, calls, phase, crashed>>

RefreshImageManagerCache(t) ==
    /\ Running(t)
    /\ Top(t) \in {"rf_start", "rf_key", "rf_auth", "rf_set", "rf_after"}
    /\ CASE Top(t) = "rf_start" -> RefreshStart(t)
         [] Top(t) = "rf_key" -> RefreshKey(t)
         [] Top(t) = "rf_auth" -> RefreshAuth(t)
         [] Top(t) = "rf_set" -> RefreshSet(t)
         [] Top(t) = "rf_after" -> RefreshAfter(t)

\* ---------------------------------------------------------------- callers
\* the calls a goroutine can make, with their arguments
Calls ==
    {[Idle EXCEPT !.op = o, !.ref = r, !.stack = Entry(o) \o <<"done">>] :
        o \in {"getImagePullInfo", "deleteImagePullInfo", "storeImageManagerCache",
               "loadImageManagerCache"}, r \in Refs}
    \cup {[Idle EXCEPT !.op = o, !.ref = r, !.hash = h, !.stack = Entry(o) \o <<"done">>] :
        o \in {"getAuthInfo", "deleteAuthInfo"}, r \in Refs, h \in Hashes}
    \cup {[Idle EXCEPT !.op = o, !.ref = r, !.hash = h, !.data = d,
                       !.stack = Entry(o) \o <<"done">>] :
        o \in {"setImagePullInfo", "setAuthInfo"}, r \in Refs, h \in Hashes,
        d \in InputPtrs}
    \cup {[Idle EXCEPT !.op = "refreshImageManagerCache", !.recheck = b, !.period = p,
                       !.stack = Entry("refreshImageManagerCache") \o <<"done">>] :
        b \in BOOLEAN, p \in Periods}

\* a goroutine that is not inside a call makes the next one
Call(t) ==
    /\ Running(t)
    /\ Top(t) = "done"
    /\ calls < MaxCalls
    /\ calls' = calls + 1
    /\ \E c \in Calls : th' = [th EXCEPT ![t] = c]
    /\ UNCHANGED <<disk, cache, heap, lock, now, phase, crashed>>

\* one step of goroutine t
Step(t) ==
    \/ NewImageManagerCache(t)
    \/ Call(t)
    \/ LoadImageManagerCache(t)
    \/ GetImagePullInfo(t)
    \/ GetAuthInfo(t)
    \/ SetImagePullInfo(t)
    \/ DeleteImagePullInfo(t)
    \/ SetAuthInfo(t)
    \/ DeleteAuthInfo(t)
    \/ StoreImageManagerCache(t)
    \/ RefreshImageManagerCache(t)

Next == \E t \in Threads : Step(t)

Spec == Init /\ [][Next]_vars

\* The runs in which the goroutines make a single call, with Go's scheduler:
\* a goroutine that can run does run.
InitLast == InitWorld /\ calls = MaxCalls - 1
Fairness == \A t \in Threads : WF_vars(Step(t))
LiveSpec == InitLast /\ [][Next]_vars /\ Fairness

\* ---------------------------------------------------------------- vocabulary of the claims
\* the Auths of the record of image reference r
Rec(r) == heap[cache[r]].Auths
Has(r, h) == r \in DOMAIN cache /\ h \in DOMAIN Rec(r)
\* goroutine t is back from a call of op
Done(t, op) == th[t].op = op /\ Top(t) = "done"
\* goroutine t takes a step: it moves on, or it ends the process (the panic in
\* getAuthInfo releases c.lock, the fatal error of a sweep does not)
StepOf(t) ==
    \/ th'[t].stack # th[t].stack
    \/ /\ crashed' /\ ~crashed
       /\ \/ Top(t) = "ga_mux" /\ lock = t
          \/ Top(t) \in {"rf_key", "rf_auth"} /\ lock' = lock
\* goroutine t takes a step of its call of op
Within(t, op) == th[t].op = op /\ Top(t) # "done" /\ StepOf(t)
\* goroutine t returns to its caller in this step
Returns(t) == Top(t) # "done" /\ th'[t].stack = <<"done">>
\* what a fresh cache, constructed on the directory with r among its image
\* references, holds for r
Hydrated(d, r) == IF r # "" /\ d[r][1] = "json" THEN Unmarshal(d[r]).Auths ELSE EmptyAuths

\* ---------------------------------------------------------------- claims
\* the labels at which a goroutine waits for c.lock
WaitsForLock(t) ==
    \/ Top(t) \in {"get_lock", "load_lock", "set_lock", "del_lock", "sa_lock", "da_lock",
                   "store_lock"}
    \/ Top(t) = "ga_check" /\ th[t].ptr # NilRec

\* C1: setImagePullInfo(r, h, e) returns without error, after which the record
\* of r maps h to e (what getAuthInfo(r, h) reads) and a fresh cache hydrated
\* with r from the same directory maps h to e as well.
C1_SetCalled(t) == th[t].op = "setImagePullInfo" /\ Top(t) = "set_lock"
C1_SetStored(t) ==
    /\ Done(t, "setImagePullInfo")
    /\ th[t].result.err = ErrNil
    /\ Has(th[t].ref, th[t].hash)
    /\ Rec(th[t].ref)[th[t].hash] = th[t].data
    /\ th[t].ref # "" =>
          /\ th[t].hash \in DOMAIN Hydrated(disk, th[t].ref)
          /\ Hydrated(disk, th[t].ref)[th[t].hash] = th[t].data
C1_RoundTrip == \A t \in Threads : C1_SetCalled(t) ~> C1_SetStored(t)

\* C2: no cache operation waits forever for a lock; in particular no
\* goroutine waits for the store-level lock while it holds that lock itself.
C2_NoSelfDeadlock == \A t \in Threads : WaitsForLock(t) => lock # t

\* C3: once a sweep with recheck and a period P > 0 has dealt with an entry
\* whose lastEnsuredDate + P was before the time it read, the record of that
\* image reference does not hold the entry any more.
C3_SweptEntry(t) ==
    /\ th[t].op = "refreshImageManagerCache"
    /\ th[t].recheck /\ th[t].period > 0
    /\ Top(t) \in {"store_lock", "rf_after"}
    /\ Stale(th[t].data, th[t].period, now)
C3_Expiry == \A t \in Threads : C3_SweptEntry(t) => ~Has(th[t].ref, th[t].hash)

\* C4: no step of a sweep with recheck and a period P > 0 removes or changes an
\* entry whose lastEnsuredDate + P is not before the current time.
C4_SweepKeepsFresh ==
    [][\A t \in Threads :
        (Within(t, "refreshImageManagerCache") /\ th[t].recheck /\ th[t].period > 0)
        => \A r \in DOMAIN cache : \A h \in DOMAIN Rec(r) :
              ~Stale(Rec(r)[h], th[t].period, now')
              => /\ r \in DOMAIN cache'
                 /\ h \in DOMAIN Rec(r)'
                 /\ Rec(r)'[h] = Rec(r)[h]]_vars

\* C5: no step of refreshImageManagerCache with recheck = false changes the
\* map, a record or a file.
C5_NoRecheckNoop ==
    [][\A t \in Threads :
        (Within(t, "refreshImageManagerCache") /\ ~th[t].recheck)
        => cache' = cache /\ heap' = heap /\ disk' = disk]_vars

\* C6: refreshImageManagerCache(recheck = true, recheckPeriod = 0) returns nil
\* at once and changes neither the map, nor a record, nor a file.
C6_ZeroPeriodNoop ==
    [][\A t \in Threads :
        (Within(t, "refreshImageManagerCache") /\ th[t].recheck /\ th[t].period = 0)
        => /\ cache' = cache /\ heap' = heap /\ disk' = disk
           /\ Returns(t)
           /\ th'[t].result.err = ErrNil]_vars
\* a sweep with a zero period has returned, no goroutine holds the lock, and an
\* entry ensured at time 0 is still in memory
C6_Witness ==
    \E t \in Threads :
        /\ Done(t, "refreshImageManagerCache")
        /\ th[t].recheck /\ th[t].period = 0
        /\ lock = Unlocked
        /\ \E r \in DOMAIN cache : \E h \in DOMAIN Rec(r) :
              Rec(r)[h] # <<>> /\ Rec(r)[h][1].lastEnsuredDate = 0

\* C7: deleteImagePullInfo never returns "file does not exist" as an error.
C7_DeleteIdempotent ==
    \A t \in Threads : Done(t, "deleteImagePullInfo") => th[t].result.err # ErrNotExist

\* C8: a deleteImagePullInfo(r) that returns nil leaves r neither in the map
\* nor on disk; from then on r enters the map only by setImagePullInfo or
\* setAuthInfo, its file only by a store, and getImagePullInfo(r) returns nil.
C8_DeleteRemovesBoth ==
    [][\A t \in Threads : StepOf(t) =>
        /\ (Top(t) = "del_remove" /\ th'[t].result.err = ErrNil)
           => th[t].ref \notin DOMAIN cache' /\ disk'[th[t].ref] = Absent
        /\ \A r \in Refs :
              (r \notin DOMAIN cache /\ disk[r] = Absent)
              => /\ r \in DOMAIN cache'
                    => Top(t) \in {"set_assign", "sa_assign"} /\ th[t].ref = r
                 /\ disk'[r] # Absent => Top(t) = "store_write" /\ th[t].ref = r
                 /\ (th[t].op = "getImagePullInfo" /\ th[t].ref = r /\ Returns(t))
                    => th'[t].result.rec = <<>>]_vars
\* deleteImagePullInfo(r) has returned nil (the file was there), another
\* goroutine still holds the record it had found in the map, and r is gone
\* from both
C8_Witness ==
    \E t, u \in Threads :
        /\ Done(t, "deleteImagePullInfo") /\ th[t].result.err = ErrNil
        /\ th[u].op = "refreshImageManagerCache" /\ th[u].ref = th[t].ref
        /\ th[u].v > Len(RefSeq)
        /\ th[t].ref \notin DOMAIN cache /\ disk[th[t].ref] = Absent

\* C9: setImagePullInfo(r, h2, e2) on a record that holds another hash h1
\* returns, leaving the record of r with exactly the one entry h2 -> e2.
C9_SetCalledOnOther(t) ==
    /\ th[t].op = "setImagePullInfo" /\ Top(t) = "set_lock"
    /\ th[t].ref \in DOMAIN cache
    /\ DOMAIN Rec(th[t].ref) \ {th[t].hash} # {}
C9_OnlyNewEntry(t) ==
    /\ Done(t, "setImagePullInfo")
    /\ th[t].ref \in DOMAIN cache
    /\ Rec(th[t].ref) = [h \in {th[t].hash} |-> th[t].data]
C9_Overwrite == \A t \in Threads : C9_SetCalledOnOther(t) ~> C9_OnlyNewEntry(t)

\* C10: no step of setImagePullInfo(""), storeImageManagerCache("") or
\* loadImageManagerCache("") changes a file, and none of them returns an error.
C10_EmptyKeyNoop ==
    [][\A t \in Threads :
        (th[t].ref = "" /\ \E op \in {"setImagePullInfo", "storeImageManagerCache",
                                        "loadImageManagerCache"} : Within(t, op))
        => /\ disk' = disk
           /\ Returns(t) => th'[t].result.err = ErrNil]_vars

\* C11: when every goroutine has called setImagePullInfo, on pairwise distinct
\* image references, some caller can always take its next step until all have
\* returned, and a caller that has returned got no error and its entry is in
\* the record of its image reference.
C11_AllSetDistinct ==
    /\ \A t \in Threads : th[t].op = "setImagePullInfo" /\ th[t].ref # ""
    /\ \A t, u \in Threads : t # u => th[t].ref # th[u].ref
C11_ConcurrentSets ==
    C11_AllSetDistinct =>
        /\ (\E t \in Threads : Top(t) # "done") => \E t \in Threads : ENABLED Step(t)
        /\ \A t \in Threads : Top(t) = "done" =>
              /\ th[t].result.err = ErrNil
              /\ Has(th[t].ref, th[t].hash)
              /\ Rec(th[t].ref)[th[t].hash] = th[t].data

\* C12: while the goroutines run setImagePullInfo, setAuthInfo, deleteAuthInfo,
\* deleteImagePullInfo or getAuthInfo on one and the same image reference, each
\* call ends as it would in some sequential order of them: by returning to its
\* caller.  No interleaving ends the process instead.
C12_SameRefOps ==
    \E r \in Refs : \A t \in Threads :
        /\ th[t].ref = r
        /\ th[t].op \in {"setImagePullInfo", "setAuthInfo", "deleteAuthInfo",
                         "deleteImagePullInfo", "getAuthInfo"}
C12_Serializable == C12_SameRefOps => ~crashed

\* C13: newImageManagerCache hands out a cache only when every load it made
\* succeeded, and then each image reference it was given is absent from the map
\* if it has no file, and holds the decoded content of its file otherwise; as
\* soon as a load returns an error, nil is returned and nothing of the
\* half-built cache remains.
C13_FailFast ==
    [][\A t \in Threads : (phase = "new" /\ StepOf(t)) =>
        /\ (Top(t) = "ctor_check" /\ th[t].err # ErrNil)
           => phase' = "nil" /\ DOMAIN cache' = {}
        /\ phase' = "running"
           => \A r \in th[t].seenK :
                 \/ r = "" /\ disk[r] # Absent
                 \/ disk[r] = Absent /\ r \notin DOMAIN cache'
                 \/ /\ r # "" /\ disk[r][1] = "json"
                    /\ r \in DOMAIN cache'
                    /\ Rec(r)' = Unmarshal(disk[r]).Auths]_vars
\* construction was given up because the file of FileRef holds malformed JSON
C13_Witness ==
    /\ phase = "nil"
    /\ disk[FileRef] = Malformed
    /\ th[1].err = ErrNil /\ Top(1) = "done"

\* C14: when the load made by getImagePullInfo (called directly or by
\* getAuthInfo) for a reference whose file exists returns an error, the read
\* hands that error on to its caller.
C14_ReadErrorSurfaces ==
    [][\A t \in Threads :
        (/\ th[t].op \in {"getImagePullInfo", "getAuthInfo"}
         /\ Top(t) = "get_ret" /\ StepOf(t)
         /\ th[t].ref # "" /\ disk[th[t].ref] # Absent
         /\ th[t].err # ErrNil)
        => th'[t].err = th[t].err \/ th'[t].result.err = th[t].err]_vars

\* C15: no step of loadImageManagerCache(r), called directly or by
\* getImagePullInfo, changes the record of an image reference r that is in
\* the map already.
C15_LoadKeepsMemory ==
    [][\A t \in Threads :
        (/\ Running(t)
         /\ th[t].op \in {"loadImageManagerCache", "getImagePullInfo"}
         /\ Top(t) \in {"load_stat", "load_lock", "load_read"} /\ StepOf(t)
         /\ th[t].ref \in DOMAIN cache)
        => th[t].ref \in DOMAIN cache' /\ Rec(th[t].ref)' = Rec(th[t].ref)]_vars

\* C16: a step of deleteAuthInfo(r, h) changes no file and no key of the map,
\* adds no entry, and leaves every entry other than h of r as it was.
C16_DeleteAuthFrame ==
    [][\A t \in Threads :
        (Top(t) \in {"da_lock", "da_check", "da_delete"} /\ StepOf(t))
        => /\ disk' = disk
           /\ DOMAIN cache' = DOMAIN cache
           /\ \A r \in DOMAIN cache : \A h \in Hashes :
                 /\ Has(r, h)' => Has(r, h) /\ Rec(r)'[h] = Rec(r)[h]
                 /\ (Has(r, h) /\ ~(r = th[t].ref /\ h = th[t].hash)) => Has(r, h)']_vars
\* the only call made so far, deleteAuthInfo(r, h), has returned; r was loaded
\* from a file whose only entry is h, and r is still in the map with no entry
C16_Witness ==
    \E t \in Threads :
        /\ Done(t, "deleteAuthInfo") /\ calls = 1
        /\ th[t].ref \in DOMAIN cache /\ Rec(th[t].ref) = EmptyAuths
        /\ DOMAIN Hydrated(disk, th[t].ref) = {th[t].hash}

\* C17: when the sweep persists an entry (the storeImageManagerCache called by
\* its setImagePullInfo), the outcome of that write comes back to the sweep,
\* which then stops with the error or goes on.
C17_SweepPersists(t) == th[t].op = "refreshImageManagerCache" /\ Top(t) = "store_lock"
C17_SweepHasOutcome(t) == th[t].op = "refreshImageManagerCache" /\ Top(t) = "rf_after"
C17_SweepAbortsOnError ==
    \A t \in Threads : C17_SweepPersists(t) ~> C17_SweepHasOutcome(t)

\* C18: a step that adds, removes or replaces a key of the map, or changes a
\* record in it, is taken by the goroutine that holds c.lock; the delete of an
\* entry of a record is made by the goroutine that holds the record's mux; a
\* goroutine takes a record's mux only while it holds c.lock, and takes c.lock
\* only while it holds no record's mux.
MuxHeld(t) == \E a \in DOMAIN heap : heap[a].mux = t
C18_LockDiscipline ==
    [][\A t \in Threads : (StepOf(t) /\ phase' # "nil") =>
        /\ (\/ DOMAIN cache' # DOMAIN cache
            \/ \E r \in DOMAIN cache \cap DOMAIN cache' : Rec(r)' # Rec(r))
           => lock = t
        /\ Top(t) = "da_delete" => heap[cache[th[t].ref]].mux = t
        /\ (MuxHeld(t)' /\ ~MuxHeld(t)) => lock = t /\ lock' = t
        /\ (lock' = t /\ lock # t) => ~MuxHeld(t)]_vars
\* a goroutine is about to delete an entry, holding c.lock and the mux of the
\* record, while the other goroutine waits for c.lock
C18_Witness ==
    \E t, u \in Threads :
        /\ Top(t) = "da_delete" /\ lock = t /\ heap[cache[th[t].ref]].mux = t
        /\ Has(th[t].ref, th[t].hash)
        /\ u # t /\ Top(u) = "sa_lock" /\ th[u].ref = th[t].ref

\* C19: a getAuthInfo(r, h) that is about to lock c.cache[r].mux finds r in
\* the map.
C19_NoNilRecord == \A t \in Threads : Top(t) = "ga_mux" => th[t].ref \in DOMAIN cache

\* C20: no goroutine is about to write c.cache while a sweep is about to read
\* its next key, and none is about to write the Auths map of the record whose
\* next entry a sweep is about to read.
C20_SweepExcludesWriters ==
    \A t \in Threads :
        th[t].op = "refreshImageManagerCache" =>
            /\ Top(t) = "rf_key" => CacheWriters(t) = {}
            /\ Top(t) = "rf_auth" => AuthsWriters(t) = {}
====
